---- MODULE Spec2Model ----
(***************************************************************************)
(* Verification model of the chess coaching core:                          *)
(*   coach_session.py  CoachSession / EngineSession (navigation, move      *)
(*                     classification, deep probe)                         *)
(*   game_analyzer.py  analyze_game (batch pass and annotated export)      *)
(*   main.py           the worker threads that drive them                  *)
(* Ply indices are 0-based as in the source; TLA+ sequences are 1-based,   *)
(* so nodes_mainline[i] of the source is nodes_mainline[i + 1] here.       *)
(***************************************************************************)
EXTENDS Integers, Sequences, FiniteSets, TLC

VARIABLES
    game,            \* CoachState.game (NoGame before load_pgn)
    nodes_mainline,  \* CoachState.nodes_mainline
    board,           \* CoachState.board
    ply_idx,         \* CoachState.ply_idx
    last_branch,     \* CoachState.last_branch
    ret              \* what the last CoachSession call did and returned

sessVars == <<game, nodes_mainline, board, ply_idx, last_branch, ret>>

VARIABLES            \* analyze_game (game_analyzer.py)
    ag_pc,           \* "idle", "loop", "done" or "raised"
    ag_game,         \* the game read from the PGN file
    ag_board,        \* board
    ag_ply,          \* ply
    ag_annotated,    \* the moves of the annotated game along child 0
    ag_rec,          \* the record and export node of the ply just analysed
    ag_engine        \* the engine process: "none", "running" or "quit"

batchVars == <<ag_pc, ag_game, ag_board, ag_ply, ag_annotated, ag_rec, ag_engine>>

VARIABLES            \* threads and engine processes
    th_pc,           \* where each thread is
    th_req,          \* the position a thread asked the engine about
    th_res,          \* the result a thread got back
    th_left,         \* engine calls a thread has yet to make
    es_lock,         \* owner of EngineSession._lock, NoThread when free
    procs,           \* live engine processes
    searching        \* searches in flight: [proc, by, req]

engVars == <<th_pc, th_req, th_res, th_left, es_lock, procs, searching>>

VARIABLES            \* the severity mark functions applied to one CPL
    mk_cpl, mk_inline, mk_batch

markVars == <<mk_cpl, mk_inline, mk_batch>>

VARIABLES            \* the score normalizers applied to one score object
    sc_obj,          \* the score object
    sc_out           \* per requested colour: what each normalizer did

scoreVars == <<sc_obj, sc_out>>

VARIABLES
    stop_event       \* App.stop_event, the one cancellation signal

VARIABLES            \* the alternatives offered for one analysed position
    alt_in,          \* the position, the move played in it and the engine lines
    alt_out          \* what the exporter and the coaching loop each selected

altVars == <<alt_in, alt_out>>

VARIABLES            \* EngineSession.quit
    es_responsive,   \* the engine process answers the commands sent to it
    es_quits,        \* calls of quit that have returned or raised
    es_quit_raised   \* a call of quit ended by raising

quitVars == <<es_responsive, es_quits, es_quit_raised>>

outsideSession == <<batchVars, engVars, markVars, scoreVars, stop_event, altVars, quitVars>>
outsideBatch == <<sessVars, engVars, markVars, scoreVars, stop_event, altVars, quitVars>>
outsideThreads == <<sessVars, batchVars, markVars, scoreVars, stop_event, altVars, quitVars>>
outsideMarks == <<sessVars, batchVars, engVars, scoreVars, stop_event, altVars, quitVars>>
outsideScores == <<sessVars, batchVars, engVars, markVars, stop_event, altVars, quitVars>>
outsideApp == <<sessVars, batchVars, engVars, markVars, scoreVars, altVars, quitVars>>
outsideAlts == <<sessVars, batchVars, engVars, markVars, scoreVars, stop_event, quitVars>>

vars == <<sessVars, batchVars, engVars, markVars, scoreVars, stop_event, altVars, quitVars>>

-----------------------------------------------------------------------------
(* Bounds of the model *)

MaxLen == 3          \* longest mainline of the generated games
MaxLines == 2        \* most MultiPV lines the engine returns in one reply
MaxCpK == 1          \* engine centipawn scores are k * CpStep, |k| <= MaxCpK

(* Program constants *)

THRESH_INACCURACY == 50
THRESH_MISTAKE == 150
THRESH_BLUNDER == 300
ALT_TOL_CP == 25
COACH_OPENING_FULLMOVES == 6
OPENING_SKIP_FULLMOVES == 5
MATE_CP == 100000
FAR_FULLMOVE == 999
FIRST_LINE_MULTIPV == 3

WHITE == TRUE
BLACK == FALSE

-----------------------------------------------------------------------------
(* chess.Board, reduced to what the session reads: the moves pushed since  *)
(* the root position, the side to move and the full-move counter.          *)

Push(b, m) ==
    [stack |-> Append(b.stack, m),
     turn |-> ~b.turn,
     fullmove_number |-> IF b.turn = BLACK THEN b.fullmove_number + 1
                         ELSE b.fullmove_number]

RECURSIVE PushAll(_, _)
PushAll(b, ms) ==
    IF ms = <<>> THEN b ELSE PushAll(Push(b, Head(ms)), Tail(ms))

RootBoard(turn, fullmove) ==
    [stack |-> <<>>, turn |-> turn, fullmove_number |-> fullmove]

StartBoard == RootBoard(WHITE, 1)

(* A parsed game: the root position (a FEN header may set it) and the      *)
(* mainline nodes; nvars is len(node.parent.variations).                   *)

(* the standard start, and a set-up position on the last full move of the *)
(* opening grace with Black to move, so that both sides move on either    *)
(* side of the cutoff                                                      *)
Roots == {StartBoard, RootBoard(BLACK, COACH_OPENING_FULLMOVES)}

VariationCounts == {1, 2}

MainlinesOfLen(n) ==
    {[i \in 1..n |-> [move |-> i, nvars |-> v[i]]] : v \in [1..n -> VariationCounts]}

(* The game of the fallback-chain scenario: 17 plies from the start        *)
(* position, branch points only at full-moves 2 (ply 2) and 9 (ply 16).    *)
ScenarioGame ==
    [root |-> StartBoard,
     main |-> [i \in 1..17 |-> [move |-> i,
                                nvars |-> IF i \in {3, 17} THEN 2 ELSE 1]]]

Games ==
    {[root |-> r, main |-> m] :
        r \in Roots, m \in UNION {MainlinesOfLen(n) : n \in 0..MaxLen}}
    \cup {ScenarioGame}

NoGame == [none |-> TRUE]
NoBranch == [none |-> TRUE]
Idle == [op |-> "idle"]

MainMoves(nodes) == [i \in 1..Len(nodes) |-> nodes[i].move]

-----------------------------------------------------------------------------
(* CoachSession: load and navigation *)

NoIdx == 0 - 1       \* Python's None for an index

PlyArgs == (NoIdx..(MaxLen + 1)) \cup {Len(ScenarioGame.main) + 1}
FullmoveArgs == {1, FAR_FULLMOVE} \cup (4..7)

(* board.san(move): the notation of a move, with its check suffix.  The    *)
(* text is kept as its lower-case form and its capitalisation: the move    *)
(* CapitalTwin is written like the move PawnTwin but for the capital of    *)
(* its piece letter ("Bxc4" and "bxc4").                                   *)
PawnTwin == 1
CapitalTwin == 3

SanText(m) == [lower |-> IF m = CapitalTwin THEN PawnTwin ELSE m,
               capital |-> m = CapitalTwin]
San(b, m) == [text |-> SanText(m), suffix |-> ""]
EmptySan == [text |-> [lower |-> 0, capital |-> FALSE], suffix |-> ""]
SanQueries ==
    {[text |-> SanText(m), suffix |-> s] : m \in 1..(MaxLen + 1), s \in {"", "+", "!"}}
StripSuffix(san) == san.text
Lower(text) == text.lower

Min(a, b) == IF a < b THEN a ELSE b

current_status(ply, b, nodes) ==
    [ply |-> ply, fullmove |-> b.fullmove_number, turn |-> b.turn,
     moves_total |-> Len(nodes)]

(* load_pgn: g is what read_game finds in the file, NoGame when the file   *)
(* holds no game (ValueError, the state is left as it was)                 *)
load_pgn(g) ==
    /\ ret = Idle
    /\ UNCHANGED outsideSession
    /\ IF g = NoGame
       THEN /\ ret' = [op |-> "load_pgn", raised |-> TRUE]
            /\ UNCHANGED <<game, nodes_mainline, board, ply_idx, last_branch>>
       ELSE /\ game' = g
            /\ nodes_mainline' = g.main
            /\ board' = g.root
            /\ ply_idx' = 0
            /\ last_branch' = NoBranch
            /\ ret' = [op |-> "load_pgn", raised |-> FALSE,
                       status |-> current_status(0, g.root, g.main)]

(* a clamp that lacks the lower bound *)
ClampPlyUpperOnly(ply, n) == IF ply < n THEN ply ELSE n

ClampPly(ply, n) ==
    LET lo == IF ply < n THEN ply ELSE n IN IF lo > 0 THEN lo ELSE 0

(* the body of goto_ply once a game is loaded: the cursor it leaves *)
GotoBoard(g, nodes, ply) ==
    PushAll(g.root, SubSeq(MainMoves(nodes), 1, ply))

goto_ply(n) ==
    /\ ret = Idle
    /\ UNCHANGED outsideSession
    /\ IF game = NoGame
       THEN /\ ret' = [op |-> "goto_ply", n |-> n, raised |-> FALSE, error |-> "no_game"]
            /\ UNCHANGED <<board, ply_idx>>
       ELSE LET ply == ClampPly(n, Len(nodes_mainline)) IN
            /\ board' = GotoBoard(game, nodes_mainline, ply)
            /\ ply_idx' = ply
            /\ ret' = [op |-> "goto_ply", n |-> n, raised |-> FALSE, error |-> "",
                       status |-> current_status(ply, GotoBoard(game, nodes_mainline, ply),
                                                      nodes_mainline)]
    /\ UNCHANGED <<game, nodes_mainline, last_branch>>

(* goto_by_san: index of the first mainline move whose stripped notation   *)
(* equals the stripped query without regard to case, scanning from ply i   *)
(* with scan board b                                                       *)
(* a scan that answers the first ply when nothing matches *)
RECURSIVE FindSanOrStart(_, _, _, _)
FindSanOrStart(nodes, i, b, q) ==
    IF i > Len(nodes) THEN 0
    ELSE IF Lower(StripSuffix(San(b, nodes[i].move))) = Lower(StripSuffix(q)) THEN i - 1
    ELSE FindSanOrStart(nodes, i + 1, Push(b, nodes[i].move), q)

RECURSIVE FindSan(_, _, _, _)
FindSan(nodes, i, b, q) ==
    IF i > Len(nodes) THEN NoIdx
    ELSE IF Lower(StripSuffix(San(b, nodes[i].move))) = Lower(StripSuffix(q)) THEN i - 1
    ELSE FindSan(nodes, i + 1, Push(b, nodes[i].move), q)

goto_by_san(q) ==
    /\ ret = Idle
    /\ UNCHANGED outsideSession
    /\ IF game = NoGame
       THEN /\ ret' = [op |-> "goto_by_san", q |-> q, raised |-> FALSE, error |-> "no_game"]
            /\ UNCHANGED <<board, ply_idx>>
       ELSE LET i == FindSan(nodes_mainline, 1, game.root, q) IN
            IF i = NoIdx
            THEN /\ ret' = [op |-> "goto_by_san", q |-> q, raised |-> FALSE,
                            error |-> "not_found"]
                 /\ UNCHANGED <<board, ply_idx>>
            ELSE LET ply == ClampPly(i, Len(nodes_mainline)) IN
                 /\ board' = GotoBoard(game, nodes_mainline, ply)
                 /\ ply_idx' = ply
                 /\ ret' = [op |-> "goto_by_san", q |-> q, raised |-> FALSE, error |-> "",
                            status |-> current_status(ply, GotoBoard(game, nodes_mainline, ply),
                                                      nodes_mainline)]
    /\ UNCHANGED <<game, nodes_mainline, last_branch>>

(* autoplay_to_first_branch: the scan of the mainline.  Returns            *)
(* <<chosen_idx, fallback_idx>> (NoIdx for None) after nodes i..           *)
InRange(lo, f, hi) == lo <= f /\ f <= hi

RECURSIVE ScanBranches(_, _, _, _, _, _, _)
ScanBranches(nodes, i, b_scan, chosen_idx, fallback_idx, min_fullmove, max_fullmove) ==
    IF i > Len(nodes) THEN <<chosen_idx, fallback_idx>>
    ELSE LET fullmove_before == b_scan.fullmove_number
             isBranch == nodes[i].nvars > 1
             fb == IF isBranch /\ fallback_idx = NoIdx THEN i - 1 ELSE fallback_idx
             ch == IF isBranch /\ chosen_idx = NoIdx
                      /\ InRange(min_fullmove, fullmove_before, max_fullmove)
                   THEN i - 1 ELSE chosen_idx
         IN ScanBranches(nodes, i + 1, Push(b_scan, nodes[i].move), ch, fb,
                         min_fullmove, max_fullmove)

(* a choice that lacks the earliest-branch fallback *)
FallbackChoiceNoEarliest(chosen_idx, fallback_idx) ==
    IF chosen_idx # NoIdx THEN chosen_idx ELSE 0

FallbackChoice(chosen_idx, fallback_idx) ==
    IF chosen_idx # NoIdx THEN chosen_idx
    ELSE IF fallback_idx # NoIdx THEN fallback_idx ELSE 0

ChosenIdx(g, nodes, min_fullmove, max_fullmove) ==
    LET r == ScanBranches(nodes, 1, g.root, NoIdx, NoIdx, min_fullmove, max_fullmove)
    IN FallbackChoice(r[1], r[2])

autoplay_to_first_branch(min_fullmove, max_fullmove) ==
    /\ ret = Idle
    /\ UNCHANGED outsideSession
    /\ IF game = NoGame
       THEN /\ ret' = [op |-> "autoplay", min_fullmove |-> min_fullmove,
                       max_fullmove |-> max_fullmove, raised |-> FALSE,
                       error |-> "no_game"]
            /\ UNCHANGED <<board, ply_idx, last_branch>>
       ELSE LET chosen_idx == ChosenIdx(game, nodes_mainline, min_fullmove, max_fullmove)
                ply == ClampPly(chosen_idx, Len(nodes_mainline))
                b == GotoBoard(game, nodes_mainline, ply)
            IN  \* self.goto_ply(chosen_idx)
                /\ board' = b
                /\ ply_idx' = ply
                \* nodes_mainline[chosen_idx] raises IndexError on an empty mainline
                /\ IF chosen_idx >= Len(nodes_mainline)
                   THEN /\ ret' = [op |-> "autoplay", min_fullmove |-> min_fullmove,
                                   max_fullmove |-> max_fullmove, raised |-> TRUE,
                                   error |-> ""]
                        /\ UNCHANGED last_branch
                   ELSE LET info == [branch_ply |-> chosen_idx,
                                     branch_fullmove |-> b.fullmove_number]
                        IN /\ last_branch' = info
                           /\ ret' = [op |-> "autoplay", min_fullmove |-> min_fullmove,
                                      max_fullmove |-> max_fullmove, raised |-> FALSE,
                                      error |-> "", info |-> info]
    /\ UNCHANGED <<game, nodes_mainline>>

(* run_assistant: the loop returns to listening for the next command *)
NextCommand ==
    /\ ret # Idle
    /\ UNCHANGED outsideSession
    /\ ret' = Idle
    /\ UNCHANGED <<game, nodes_mainline, board, ply_idx, last_branch>>

-----------------------------------------------------------------------------
(* The engine boundary.  A score is a PovScore: a centipawn or mate value  *)
(* relative to the colour `turn`; the engine reports it for the side to    *)
(* move of the analysed position.  A reply is a failure or a list of       *)
(* lines (score, pv), ranked from the first.                               *)

CpVals == {k * ALT_TOL_CP : k \in (0 - MaxCpK)..MaxCpK}
MateVals == {0 - 1, 1}
NoScore == [kind |-> "none"]

Scores(turn) ==
    {[kind |-> "cp", v |-> c, turn |-> turn] : c \in CpVals}
    \cup {[kind |-> "mate", v |-> m, turn |-> turn] : m \in MateVals}
    \cup {NoScore}

AltMove(i) == 0 - i   \* the first move of line i when it is not the played move

(* first moves of the lines are pairwise different legal moves: the played *)
(* move at most once, AltMove(i) in line i, or no pv at all                *)
FirstMoves(played, i) == {<<>>, <<played>>, <<AltMove(i)>>}

LinesOfLen(turn, played, n) ==
    {l \in [1..n -> [score : Scores(turn), pv : {<<>>, <<played>>}
                                               \cup {<<AltMove(i)>> : i \in 1..n}]] :
        /\ \A i \in 1..n : l[i].pv \in FirstMoves(played, i)
        /\ \A i, j \in 1..n : (i # j /\ l[i].pv = <<played>>) => l[j].pv # <<played>>}

EngineFailure == [ok |-> FALSE]

(* what engine.analyse(b, multipv = n) can answer *)
EngineReplies(turn, played, n) ==
    {EngineFailure}
    \cup {[ok |-> TRUE, items |-> l] :
            l \in UNION {LinesOfLen(turn, played, k) : k \in 0..n}}

(* PovScore.pov(color): the value seen from `color` *)
Pov(s, color) == IF s.turn = color THEN s.v ELSE 0 - s.v

(* A mate already on the board has distance 0 for both sides: Mate(0) for  *)
(* the side that is mated (kind "mate", v = 0) and MateGiven for the side  *)
(* that gave it (kind "mategiven"); pov() turns one into the other and     *)
(* mate() returns 0 for both.                                              *)
IsZeroMate(s) == s.kind = "mategiven" \/ (s.kind = "mate" /\ s.v = 0)

ZeroMateWon(s, color) == (s.kind = "mategiven") <=> (s.turn = color)

(* An object that is not a PovScore (kind "object"): each accessor the     *)
(* normalizers try is absent or raises when read; cp may hold a number.    *)
ObjectCp == 7

(* CoachSession._score_to_cp(board, score_obj); the body is inside         *)
(* try/except Exception, which returns 0                                   *)
ScoreToCp(b, s) ==
    IF s.kind = "none" THEN 0
    ELSE IF s.kind = "object"
         THEN IF s.pov = "absent" /\ s.mate = "absent" /\ s.cp = "value"
              THEN ObjectCp ELSE 0
    ELSE IF IsZeroMate(s) THEN 0
    ELSE IF s.kind = "mate"
         THEN IF Pov(s, b.turn) > 0 THEN MATE_CP
              ELSE IF Pov(s, b.turn) < 0 THEN 0 - MATE_CP ELSE 0
         ELSE Pov(s, b.turn)

Abs(x) == IF x < 0 THEN 0 - x ELSE x

(* the inline thresholds of detect_mistake_on_next_main_move *)
InlineMark(cpl) ==
    LET ac == Abs(cpl) IN
    IF ac >= THRESH_BLUNDER THEN "??"
    ELSE IF ac >= THRESH_MISTAKE THEN "?"
    ELSE IF ac >= THRESH_INACCURACY THEN "?!"
    ELSE ""

(* a grace period that ends one full move earlier *)
InOpeningGraceStrict(pre_board) == pre_board.fullmove_number < COACH_OPENING_FULLMOVES

InOpeningGrace(pre_board) == pre_board.fullmove_number <= COACH_OPENING_FULLMOVES

(* index of the first line whose first move is the played move, 0 if none *)
RECURSIVE PlayedLine(_, _, _)
PlayedLine(items, i, played) ==
    IF i > Len(items) THEN 0
    ELSE IF items[i].pv # <<>> /\ items[i].pv[1] = played THEN i
    ELSE PlayedLine(items, i + 1, played)

(* a tolerance that excludes its boundary *)
WithinTolStrict(best_cp, cp_played) == Abs(best_cp - cp_played) < ALT_TOL_CP

WithinTol(best_cp, cp_played) == Abs(best_cp - cp_played) <= ALT_TOL_CP

(* mover = (not pre_board.turn) *)
Mover(pre_board) == ~pre_board.turn

FirstSan(b, item) == IF item.pv # <<>> THEN San(b, item.pv[1]) ELSE EmptySan

Verdict(phase, played_san, best_san, cpl, mark, calls, pre_board, extra) ==
    [op |-> "detect", raised |-> FALSE, phase |-> phase,
     played_san |-> played_san, best_san |-> best_san, cpl |-> cpl, mark |-> mark,
     calls |-> calls, pre_board |-> pre_board] @@ extra

Call(b, multipv) == [board |-> b, multipv |-> multipv]

(* the classifier with an engine that answers the pre-move analysis with  *)
(* one of pre_replies and the post-move analysis with one of post_replies  *)
detect_with(pre_replies, post_replies) ==
    /\ ret = Idle
    /\ UNCHANGED outsideSession
    /\ UNCHANGED <<game, nodes_mainline, board, ply_idx, last_branch>>
    /\ IF game = NoGame \/ ply_idx >= Len(nodes_mainline)
       THEN ret' = Verdict("nothing", EmptySan, EmptySan, 0, "", <<>>, board, <<>>)
       ELSE
       LET move == nodes_mainline[ply_idx + 1].move
           pre_board == board
           played_san == San(pre_board, move)
       IN
       IF InOpeningGrace(pre_board)
       THEN ret' = Verdict("grace", played_san, EmptySan, 0, "", <<>>, pre_board, <<>>)
       ELSE
       \E pre \in pre_replies :
         IF ~pre.ok
         THEN ret' = [op |-> "detect", raised |-> TRUE, calls |-> <<Call(pre_board, 4)>>]
         ELSE
         LET items_pre == pre.items
             has_best == items_pre # <<>>
             best_cp_stm == IF has_best THEN ScoreToCp(pre_board, items_pre[1].score)
                            ELSE 0
             k == PlayedLine(items_pre, 1, move)
             played_is_best == k = 1
             has_cp_played == k # 0 /\ items_pre[k].score # NoScore
             cp_played_pre == IF has_cp_played
                              THEN ScoreToCp(pre_board, items_pre[k].score) ELSE 0
             best_san == IF has_best THEN FirstSan(pre_board, items_pre[1]) ELSE EmptySan
         IN
         IF played_is_best \/ (has_cp_played /\ WithinTol(best_cp_stm, cp_played_pre))
         THEN ret' = Verdict("equal", played_san,
                             IF played_is_best THEN played_san ELSE best_san,
                             0, "", <<Call(pre_board, 4)>>, pre_board,
                             [items_pre |-> items_pre])
         ELSE
         LET mover == Mover(pre_board)
             b_after == Push(pre_board, move)
         IN
         \E post \in post_replies :
           /\ post.ok => \A i \in 1..Len(post.items) : post.items[i].pv = <<>>
           /\ IF ~post.ok
              THEN ret' = [op |-> "detect", raised |-> TRUE,
                           calls |-> <<Call(pre_board, 4), Call(b_after, 1)>>,
                           items_pre |-> items_pre]
              ELSE
              LET post_score == IF post.items # <<>> THEN post.items[1].score ELSE NoScore
                  b_tmp == [b_after EXCEPT !.turn = mover]
                  post_cp_for_mover == ScoreToCp(b_tmp, post_score)
                  cpl == best_cp_stm - post_cp_for_mover
              IN ret' = Verdict("cpl", played_san, best_san, cpl, InlineMark(cpl),
                                <<Call(pre_board, 4), Call(b_after, 1)>>, pre_board,
                                [items_pre |-> items_pre, post_score |-> post_score,
                                 best_cp_stm |-> best_cp_stm])

(* the "continue" step of the coaching loop: with a game open, on to the   *)
(* next branch point after the present full move                           *)
continue_step ==
    /\ game # NoGame
    /\ autoplay_to_first_branch(board.fullmove_number + 1, FAR_FULLMOVE)

(* the next mainline move at the cursor, 0 at the end of the game *)
NextMove ==
    IF game # NoGame /\ ply_idx < Len(nodes_mainline)
    THEN nodes_mainline[ply_idx + 1].move ELSE 0

(* multipv_cap: the most lines the engine has for a position *)
detect_mistake_on_next_main_move(multipv_cap) ==
    detect_with(EngineReplies(board.turn, NextMove, multipv_cap),
                EngineReplies(~board.turn, NextMove, 1))

(* The opening scenario: 1.e4 e5 2.Nf3 and then Nc6 or f6.  The engine     *)
(* gives Nc6 at +35 and Bc5 at +20 before the move, and after f6 a score   *)
(* 340 cp worse for Black, the mover; scores are from White's side.        *)
Nc6 == 4
F6 == 5
Bc5 == AltMove(2)

OpeningGame(reply) ==
    [root |-> StartBoard,
     main |-> [i \in 1..4 |-> [move |-> IF i = 4 THEN reply ELSE i, nvars |-> 1]]]

OpeningGames == {OpeningGame(Nc6), OpeningGame(F6)}

ScenarioCp(v) == [kind |-> "cp", v |-> v, turn |-> WHITE]

OpeningPre ==
    {[ok |-> TRUE, items |-> <<[score |-> ScenarioCp(35), pv |-> <<Nc6>>],
                               [score |-> ScenarioCp(20), pv |-> <<Bc5>>]>>]}

OpeningPost ==
    {[ok |-> TRUE, items |-> <<[score |-> ScenarioCp(35 + 340), pv |-> <<>>]>>]}

(* the classifier called at the scenario's position *)
detect_in_opening ==
    /\ game \in OpeningGames /\ ply_idx = 3
    /\ detect_with(OpeningPre, OpeningPost)

-----------------------------------------------------------------------------

(* _format_lines: idx, cp and the notation of the pv of every line *)
FormatLines(b, results) ==
    [i \in 1..Len(results) |->
        [idx |-> i,
         cp |-> ScoreToCp(b, results[i].score),
         pv_san |-> [j \in 1..Len(results[i].pv) |-> San(b, results[i].pv[j])]]]

quick_eval(multipv_cap) ==
    /\ ret = Idle
    /\ UNCHANGED outsideSession
    /\ UNCHANGED <<game, nodes_mainline, board, ply_idx, last_branch>>
    /\ \E res \in EngineReplies(board.turn, NextMove, multipv_cap) :
         IF ~res.ok
         THEN ret' = [op |-> "quick_eval", raised |-> TRUE, calls |-> <<Call(board, 2)>>]
         ELSE ret' = [op |-> "quick_eval", raised |-> FALSE, calls |-> <<Call(board, 2)>>,
                      lines |-> FormatLines(board, res.items)]

(* the sans of lines 2.. within ALT_TOL_CP of line 1, not empty, not the best *)
RECURSIVE EqualAlts(_, _, _)
EqualAlts(lines, i, best) ==
    IF i > Len(lines) THEN <<>>
    ELSE LET rest == EqualAlts(lines, i + 1, best) IN
         IF Abs(best.cp - lines[i].cp) <= ALT_TOL_CP
            /\ lines[i].san # EmptySan /\ lines[i].san # best.san
         THEN <<lines[i].san>> \o rest ELSE rest

FirstTwo(s) == SubSeq(s, 1, IF Len(s) < 2 THEN Len(s) ELSE 2)

(* what first_line_and_equal_alts makes of the engine's lines *)
FirstLineOptions(b, items) ==
    LET \* items[:multipv]
        lines == [i \in 1..Min(Len(items), FIRST_LINE_MULTIPV) |->
                     [san |-> FirstSan(b, items[i]),
                      cp |-> ScoreToCp(b, items[i].score)]]
    IN IF lines = <<>>
       THEN [best_san |-> EmptySan, equal_alts |-> <<>>]
       ELSE [best_san |-> lines[1].san,
             equal_alts |-> FirstTwo(EqualAlts(lines, 2, lines[1]))]

(* the coaching loop's list with nothing taken out of it *)
EngineAltsUnfiltered(opts, played) == opts.equal_alts

(* the coaching loop's engine_alts: the equal alternatives that are not    *)
(* empty, not the best move and not the move played                        *)
EngineAlts(opts, played) ==
    SelectSeq(opts.equal_alts,
              LAMBDA a : a # EmptySan /\ a # opts.best_san /\ a # played)

first_line_and_equal_alts(multipv_cap) ==
    /\ ret = Idle
    /\ UNCHANGED outsideSession
    /\ UNCHANGED <<game, nodes_mainline, board, ply_idx, last_branch>>
    /\ \E res \in EngineReplies(board.turn, NextMove, multipv_cap) :
         IF ~res.ok
         THEN ret' = [op |-> "first_line", raised |-> TRUE, calls |-> <<Call(board, FIRST_LINE_MULTIPV)>>]
         ELSE
         LET items == res.items
             opts == FirstLineOptions(board, items)
         IN ret' = [op |-> "first_line", raised |-> FALSE,
                    calls |-> <<Call(board, FIRST_LINE_MULTIPV)>>, items |-> items,
                    best_san |-> opts.best_san, equal_alts |-> opts.equal_alts]

-----------------------------------------------------------------------------
(* speech_ru.apply_san_sequence.  A variation text is a sequence of        *)
(* tokens separated by white space and/or commas: a move number or         *)
(* ellipsis ("num"), a move in SAN or UCI notation, the origin square of   *)
(* the first move (like "e2" before "e4": not a legal move by itself), or  *)
(* anything else ("bad").  The move AltMove(k) is the legal k-th move of   *)
(* the variation: it is legal after k - 1 moves and in no other place.     *)

MaxTokens == 2

ProbeMoves == {AltMove(1), AltMove(2)}

BadWord == [kind |-> "bad"]

Tokens ==
    {[kind |-> "num"], BadWord, [kind |-> "origin"]}
    \cup {[kind |-> "move", notation |-> n, move |-> m] :
            n \in {"san", "uci"}, m \in ProbeMoves}

Texts == UNION {[1..n -> Tokens] : n \in 0..MaxTokens}

(* strip_move_numbers drops the number tokens and every white-space        *)
(* separator and joins what is left; the result is then split at white     *)
(* space, so what is left of the text is at most one word                  *)
StripMoveNumbers(text) == SelectSeq(text, LAMBDA t : t.kind # "num")

(* two or more tokens joined are no move, except the origin square joined  *)
(* with the SAN of the first (pawn) move, which reads as its UCI notation  *)
Words(text) ==
    LET kept == StripMoveNumbers(text) IN
    IF Len(kept) <= 1 THEN kept
    ELSE IF kept = <<[kind |-> "origin"],
                     [kind |-> "move", notation |-> "san", move |-> AltMove(1)]>>
         THEN <<[kind |-> "move", notation |-> "uci", move |-> AltMove(1)]>>
         ELSE <<BadWord>>

(* the moves applied, or failure (ValueError) on the first word that is    *)
(* not a legal move, k - 1 moves having been pushed                        *)
RECURSIVE ApplyWords(_, _)
ApplyWords(words, k) ==
    IF words = <<>> THEN [ok |-> TRUE, moves |-> <<>>]
    ELSE IF Head(words).kind # "move" \/ Head(words).move # AltMove(k)
         THEN [ok |-> FALSE]
    ELSE LET rest == ApplyWords(Tail(words), k + 1) IN
         IF rest.ok THEN [ok |-> TRUE, moves |-> <<Head(words).move>> \o rest.moves]
         ELSE rest

apply_san_sequence(text) == ApplyWords(Words(text), 1)

(* a loop that starts at depth 10 whatever the target *)
StartDepthFixed(depth) == 10

StartDepth(depth) == IF depth >= 10 THEN 10 ELSE depth

(* the deepening loop of what_if_san from depth d on: the calls made, the  *)
(* progress lines printed and the last results; `replies` are the engine's *)
(* answers in order                                                        *)
RECURSIVE Deepen(_, _, _, _)
Deepen(b, d, depth, replies) ==
    IF d > depth THEN [raised |-> FALSE, calls |-> <<>>, progress |-> <<>>,
                       trace |-> <<>>, answers |-> <<>>, last_results |-> <<>>]
    ELSE LET res == replies[1] IN
         IF ~res.ok
         THEN [raised |-> TRUE, calls |-> <<Call(b, 2) @@ [depth |-> d]>>,
               progress |-> <<>>, trace |-> <<[ev |-> "analyse", depth |-> d]>>,
               answers |-> <<>>, last_results |-> <<>>]
         ELSE LET rest == Deepen(b, d + 1, depth, Tail(replies))
                  pv == IF res.items # <<>> THEN res.items[1].pv ELSE <<>>
              IN [raised |-> rest.raised,
                  calls |-> <<Call(b, 2) @@ [depth |-> d]>> \o rest.calls,
                  progress |-> <<[depth |-> d, pv |-> pv]>> \o rest.progress,
                  trace |-> <<[ev |-> "analyse", depth |-> d],
                              [ev |-> "progress", depth |-> d]>> \o rest.trace,
                  answers |-> <<res.items>> \o rest.answers,
                  last_results |-> IF d = depth THEN res.items ELSE rest.last_results]

what_if_san(text, depth, multipv_cap) ==
    /\ ret = Idle
    /\ UNCHANGED outsideSession
    /\ UNCHANGED <<game, nodes_mainline, board, ply_idx, last_branch>>
    /\ LET applied == apply_san_sequence(text) IN
       IF ~applied.ok
       THEN ret' = [op |-> "what_if", text |-> text, depth |-> depth, raised |-> FALSE,
                    error |-> "invalid", calls |-> <<>>, progress |-> <<>>,
                    trace |-> <<>>]
       ELSE
       LET b == PushAll(board, applied.moves)
           n == depth - StartDepth(depth) + 1
       IN \E replies \in [1..n -> EngineReplies(b.turn, 0, multipv_cap)] :
            LET run == Deepen(b, StartDepth(depth), depth, replies) IN
            \* a reply after a failed call is never asked for
            /\ \A i \in 1..n : (\E j \in 1..(i - 1) : ~replies[j].ok)
                                  => replies[i] = EngineFailure
            /\ IF run.raised
               THEN ret' = [op |-> "what_if", text |-> text, depth |-> depth,
                            raised |-> TRUE, error |-> "", calls |-> run.calls,
                            progress |-> run.progress, trace |-> run.trace]
               ELSE ret' = [op |-> "what_if", text |-> text, depth |-> depth,
                            raised |-> FALSE, error |-> "", calls |-> run.calls,
                            progress |-> run.progress, trace |-> run.trace,
                            answers |-> run.answers, fen_after |-> b,
                            lines |-> FormatLines(b, run.last_results)]

-----------------------------------------------------------------------------
(* game_analyzer.py: the batch pass over a game.                           *)

DECISIVE_HIDE_CP == 1000
BAD_DROP_CP_FOR_VARIATION == 50
UNIQUE_GAP_CP == 60
BAD_SHOW == 2
SUGGEST_LEN == 3
BIG_MATE_CP == 100000
DEFAULT_MULTIPV == 3
NAG_MISTAKE == 2
NAG_BLUNDER == 4
NAG_DUBIOUS_MOVE == 6
NoNag == 0

(* a mark that reads the sign of the loss *)
annotate_by_cpl_signed(cpl) ==
    IF cpl >= THRESH_BLUNDER THEN "??"
    ELSE IF cpl >= THRESH_MISTAKE THEN "?"
    ELSE IF cpl >= THRESH_INACCURACY THEN "?!"
    ELSE ""

annotate_by_cpl(cpl) ==
    LET c == Abs(cpl) IN
    IF c >= THRESH_BLUNDER THEN "??"
    ELSE IF c >= THRESH_MISTAKE THEN "?"
    ELSE IF c >= THRESH_INACCURACY THEN "?!"
    ELSE ""

mark_to_nag(mark) ==
    IF mark = "??" THEN NAG_BLUNDER
    ELSE IF mark = "?" THEN NAG_MISTAKE
    ELSE IF mark = "?!" THEN NAG_DUBIOUS_MOVE
    ELSE NoNag

(* extract_cp(score_obj, pov_color); Score.score(mate_score = BIG_MATE_CP) *)
(* of a mate in m is BIG_MATE_CP - m, of being mated in m -BIG_MATE_CP + m *)
extract_cp(s, pov_color) ==
    IF s.kind = "none" THEN 0
    ELSE IF s.kind = "object" THEN IF s.cp = "value" THEN ObjectCp ELSE 0
    ELSE IF IsZeroMate(s)
         THEN IF ZeroMateWon(s, pov_color) THEN BIG_MATE_CP ELSE 0 - BIG_MATE_CP
    ELSE LET v == Pov(s, pov_color) IN
         IF s.kind = "cp" THEN v
         ELSE IF v > 0 THEN BIG_MATE_CP - v ELSE 0 - BIG_MATE_CP - v

(* cp_to_eval: "+0.24" from centipawns *)
cp_to_eval(cp) ==
    [sign |-> IF cp < 0 THEN "-" ELSE "+",
     pawns |-> Abs(cp) \div 100, hundredths |-> Abs(cp) % 100]

NoComment == [none |-> TRUE]

(* a variation with the whole pv and the evaluation on its last node *)
PvVariationWhole(pv_moves, max_full_moves, cp_eval, place_eval) ==
    [moves |-> pv_moves,
     comment |-> cp_to_eval(cp_eval),
     comment_at |-> Len(pv_moves),
     nodes |-> [j \in 1..Len(pv_moves) |->
                  [move |-> pv_moves[j],
                   comment |-> IF j = Len(pv_moves) THEN cp_to_eval(cp_eval)
                               ELSE NoComment]]]

(* the variation add_pv_variation appends to the pre-move node: a node for *)
(* each of the first cap moves, then the comment on var_node or last_node  *)
PvVariation(pv_moves, max_full_moves, cp_eval, place_eval) ==
    LET cap == Min(Len(pv_moves), max_full_moves * 2)
        comment_at == IF place_eval = "head" THEN 1 ELSE cap
        added == [j \in 1..cap |-> [move |-> pv_moves[j], comment |-> NoComment]]
    IN
    [moves |-> SubSeq(pv_moves, 1, cap),
     comment |-> cp_to_eval(cp_eval),
     comment_at |-> comment_at,
     nodes |-> [added EXCEPT ![comment_at].comment = cp_to_eval(cp_eval)]]

(* alternatives when the played move heads line played_idx: the lines     *)
(* other than it within ALT_TOL_CP of the first, at most two               *)
RECURSIVE EqualAltIdxs(_, _, _, _)
EqualAltIdxs(lines, i, played_idx, acc) ==
    IF i > Len(lines) THEN acc
    ELSE IF i = played_idx THEN EqualAltIdxs(lines, i + 1, played_idx, acc)
    ELSE LET acc2 == IF Abs(lines[1].cp - lines[i].cp) <= ALT_TOL_CP
                     THEN Append(acc, i) ELSE acc
         IN IF Len(acc2) >= 2 THEN acc2
            ELSE EqualAltIdxs(lines, i + 1, played_idx, acc2)

(* alternatives when the played move heads no line: the first BAD_SHOW     *)
BestAltIdxs(items, move) ==
    LET n == Min(BAD_SHOW, Len(items)) IN
    SelectSeq([i \in 1..n |-> i],
              LAMBDA i : ~(items[i].pv # <<>> /\ items[i].pv[1] = move))

InOpeningSkip(pre_board) == pre_board.fullmove_number <= OPENING_SKIP_FULLMOVES

AltIdxs(pre_board, items, lines, move, played_idx, decisive_now) ==
    IF InOpeningSkip(pre_board) \/ decisive_now THEN <<>>
    ELSE IF played_idx # 0
    THEN LET gap == IF Len(lines) >= 2 THEN lines[1].cp - lines[2].cp
                    ELSE UNIQUE_GAP_CP + 1
         IN IF played_idx = 1 /\ gap >= UNIQUE_GAP_CP THEN <<>>
            ELSE EqualAltIdxs(lines, 1, played_idx, <<>>)
    ELSE BestAltIdxs(items, move)

(* the lines as the report shows them: cp from White's side *)
WhiteLines(pre_board, items) ==
    [i \in 1..Len(items) |->
        [idx |-> i, cp |-> extract_cp(items[i].score, WHITE),
         pv_san |-> [j \in 1..Len(items[i].pv) |-> San(pre_board, items[i].pv[j])]]]

(* alt_idxs as the ply loop computes it from the pre-move analysis *)
ChosenAltIdxs(pre_board, items, move) ==
    LET best_cp_white == IF items # <<>> THEN extract_cp(items[1].score, WHITE) ELSE 0
    IN AltIdxs(pre_board, items, WhiteLines(pre_board, items), move,
               PlayedLine(items, 1, move), Abs(best_cp_white) >= DECISIVE_HIDE_CP)

(* a variation for every engine line that has moves, chosen or not *)
VariationsOfAllLines(items, alt_idxs, k, move, place_eval) ==
    LET with_pv == SelectSeq([i \in 1..Len(items) |-> i], LAMBDA i : items[i].pv # <<>>)
    IN [j \in 1..Len(with_pv) |->
          PvVariation(items[with_pv[j]].pv, SUGGEST_LEN,
                      extract_cp(items[with_pv[j]].score, WHITE), place_eval)]

(* the side variations inserted for the chosen lines *)
RECURSIVE Variations(_, _, _, _, _)
Variations(items, alt_idxs, k, move, place_eval) ==
    IF k > Len(alt_idxs) THEN <<>>
    ELSE LET it == items[alt_idxs[k]]
             rest == Variations(items, alt_idxs, k + 1, move, place_eval)
         IN IF it.pv # <<>> /\ it.pv[1] # move
            THEN <<PvVariation(it.pv, SUGGEST_LEN, extract_cp(it.score, WHITE),
                               place_eval)>> \o rest
            ELSE rest

(* children with the side variations ahead of the played move *)
ChildrenSideFirst(move, variations) ==
    [k \in 1..Len(variations) |-> variations[k].moves[1]] \o <<move>>

(* the children of the pre-move node: pre_node.add_variation(move) comes   *)
(* first, the side variations are added after it                           *)
Children(move, variations) ==
    <<move>> \o [k \in 1..Len(variations) |-> variations[k].moves[1]]

NoRec == [none |-> TRUE]

AnalyzerGames ==
    {[root |-> RootBoard(BLACK, OPENING_SKIP_FULLMOVES),
      main |-> [i \in 1..n |-> [move |-> i, nvars |-> 1]]] : n \in 0..MaxLen}

(* the tree that collects the annotations, seen along child 0, when it is *)
(* the input game itself                                                   *)
AnnotatedInPlace(g) == MainMoves(g.main)

(* annotated = chess.pgn.Game(): a new tree with no moves *)
AnnotatedGame(g) == <<>>

(* analyze_game up to the ply loop: g is what read_game finds in the file *)
analyze_game_begin(g) ==
    /\ ag_pc = "idle"
    /\ UNCHANGED outsideBatch
    /\ ag_rec' = NoRec
    /\ IF g = NoGame
       THEN /\ ag_pc' = "raised"
            /\ ag_engine' = "none"
            /\ UNCHANGED <<ag_game, ag_board, ag_ply, ag_annotated>>
       ELSE /\ ag_pc' = "loop"
            /\ ag_game' = g
            /\ ag_board' = g.root
            /\ ag_ply' = 0
            /\ ag_annotated' = AnnotatedGame(g)
            /\ ag_engine' = "running"

(* one pass of the ply loop *)
analyze_ply_with(pre_replies) ==
    /\ ag_pc = "loop" /\ ag_rec = NoRec /\ ag_ply < Len(ag_game.main)
    /\ UNCHANGED outsideBatch
    /\ UNCHANGED <<ag_game, ag_engine>>
    /\ LET pre_board == ag_board
           turn == pre_board.turn
           move == ag_game.main[ag_ply + 1].move
       IN
       \E pre \in pre_replies :
         IF ~pre.ok
         THEN /\ ag_pc' = "raised"
              /\ UNCHANGED <<ag_board, ag_ply, ag_annotated, ag_rec>>
         ELSE
         LET items == pre.items
             lines == WhiteLines(pre_board, items)
             best_cp_stm == IF items # <<>> THEN extract_cp(items[1].score, turn) ELSE 0
             best_cp_white == IF items # <<>> THEN extract_cp(items[1].score, WHITE) ELSE 0
             decisive_pre == Abs(best_cp_white) >= DECISIVE_HIDE_CP
             played_idx == PlayedLine(items, 1, move)
             alt_idxs == ChosenAltIdxs(pre_board, items, move)
             b_after == Push(pre_board, move)
             mover == IF b_after.turn = WHITE THEN BLACK ELSE WHITE
         IN
         /\ ag_board' = b_after
         /\ ag_ply' = ag_ply + 1
         /\ \E post \in EngineReplies(b_after.turn, move, 1) :
              /\ post.ok => \A i \in 1..Len(post.items) : post.items[i].pv = <<>>
              /\ IF ~post.ok \/ post.items = <<>>
                 THEN /\ ag_pc' = "raised"
                      /\ ag_annotated' = Append(ag_annotated, Children(move, <<>>)[1])
                      /\ UNCHANGED ag_rec
                 ELSE
                 LET post_score == post.items[1].score
                     post_cp_mover == extract_cp(post_score, mover)
                     post_cp_white == extract_cp(post_score, WHITE)
                     decisive_now == decisive_pre \/ Abs(post_cp_white) >= DECISIVE_HIDE_CP
                     cpl == best_cp_stm - post_cp_mover
                     mark == annotate_by_cpl(cpl)
                     place_eval == IF cpl >= BAD_DROP_CP_FOR_VARIATION THEN "head" ELSE "tail"
                     variations == IF ~InOpeningSkip(pre_board) /\ ~decisive_now
                                   THEN Variations(items, alt_idxs, 1, move, place_eval)
                                   ELSE <<>>
                     nag == mark_to_nag(mark)
                 IN /\ ag_pc' = "loop"
                    \* the move of the annotated game is child 0 of the node
                    /\ ag_annotated' = Append(ag_annotated, Children(move, variations)[1])
                    /\ ag_rec' =
                         [ply |-> ag_ply + 1, fen_before |-> pre_board,
                          move_san |-> San(pre_board, move), lines |-> lines,
                          best_cp_before_stm |-> best_cp_stm,
                          best_cp_before_white |-> best_cp_white,
                          post_cp_for_mover |-> post_cp_mover,
                          post_cp_white |-> post_cp_white,
                          cpl |-> cpl, mark |-> mark,
                          \* the export: children of the pre-move node, NAGs of
                          \* the played move's node, the mark printed in the report
                          children |-> Children(move, variations),
                          variations |-> variations,
                          nags |-> IF ~decisive_now /\ nag # NoNag THEN {nag} ELSE {},
                          md_mark |-> IF ~decisive_now THEN mark ELSE "",
                          \* what the engine said
                          items |-> items, post_score |-> post_score]

(* the mainline move the ply loop is about to analyse *)
AnalysedMove ==
    IF ag_pc = "loop" /\ ag_ply < Len(ag_game.main)
    THEN ag_game.main[ag_ply + 1].move ELSE 0

(* the ply loop with an engine that has at most multipv one-move lines *)
analyze_ply(multipv) ==
    analyze_ply_with(EngineReplies(ag_board.turn, AnalysedMove, multipv))

(* engine lines with principal variations of no, one or two plies, of as  *)
(* many plies as a variation may take and of one more: the first move as   *)
(* in FirstMoves, then other moves                                         *)
PvLens == {0, 1, 2, SUGGEST_LEN * 2, SUGGEST_LEN * 2 + 1}
Continuation(j) == 10 + j
LongPv(first, n) == [j \in 1..n |-> IF j = 1 THEN first ELSE Continuation(j)]

LongPvs(played, i) ==
    {LongPv(first, n) : first \in {played, AltMove(i)}, n \in PvLens}

LongReplies(turn, played) ==
    {[ok |-> TRUE, items |-> l] :
        l \in UNION {{x \in [1..n -> [score : Scores(turn),
                                       pv : LongPvs(played, 1) \cup LongPvs(played, 2)]] :
                         /\ \A i \in 1..n : x[i].pv \in LongPvs(played, i)
                         /\ \A i, j \in 1..n :
                              (i # j /\ x[i].pv # <<>> /\ x[j].pv # <<>>)
                                 => x[i].pv[1] # x[j].pv[1]} : n \in 0..BAD_SHOW}}

(* the ply loop with an engine that answers with long lines *)
analyze_ply_long ==
    analyze_ply_with(LongReplies(ag_board.turn, AnalysedMove))

(* a game of one ply, the first after the opening skip *)
VariationGame ==
    [root |-> RootBoard(WHITE, OPENING_SKIP_FULLMOVES + 1),
     main |-> <<[move |-> 1, nvars |-> 1]>>]

(* the for statement takes the next mainline node *)
analyze_next_node ==
    /\ ag_pc = "loop" /\ ag_rec # NoRec
    /\ UNCHANGED outsideBatch
    /\ ag_rec' = NoRec
    /\ UNCHANGED <<ag_pc, ag_game, ag_board, ag_ply, ag_annotated, ag_engine>>

(* after the loop: engine.quit() and the report and PGN are written *)
analyze_game_end ==
    /\ ag_pc = "loop" /\ ag_rec = NoRec /\ ag_ply = Len(ag_game.main)
    /\ UNCHANGED outsideBatch
    /\ ag_pc' = "done"
    /\ ag_engine' = "quit"
    /\ UNCHANGED <<ag_game, ag_board, ag_ply, ag_annotated, ag_rec>>

(* App._start_game_analysis._run returns; a new analysis can be started *)
analysis_thread_exit ==
    /\ ag_pc \in {"done", "raised"}
    /\ UNCHANGED outsideBatch
    /\ ag_pc' = "idle"
    /\ UNCHANGED <<ag_game, ag_board, ag_ply, ag_annotated, ag_rec, ag_engine>>

-----------------------------------------------------------------------------
(* Threads and engine processes.  EngineSession wraps the engine process   *)
(* opened in CoachSession.__init__; analyse holds EngineSession._lock      *)
(* around the call into the process.  analyze_fen and analyze_game open    *)
(* engine processes of their own.                                          *)

NThreads == 2        \* threads that call into the coaching session's engine
MaxCalls == 2        \* engine calls a thread makes

NoThread == 0
Callers == 1..NThreads
AnalysisThread == NThreads + 1     \* the thread of App._start_game_analysis
AllThreads == Callers \cup {AnalysisThread}
Positions == {"p", "q"}            \* what a search is asked about
NoResult == [none |-> TRUE]
SessionProc == [proc |-> "session"]
BatchProc == [proc |-> "batch"]
FenProc(t) == [proc |-> "fen", by |-> t]

(* the lock can be taken without regard to its owner *)
LockFreeAlways == TRUE

LockFree == es_lock = NoThread

(* a thread enters EngineSession.analyse and blocks on the lock *)
analyse_enter(t, pos) ==
    /\ th_pc[t] = "idle" /\ th_left[t] > 0
    /\ UNCHANGED outsideThreads
    /\ th_pc' = [th_pc EXCEPT ![t] = "waiting"]
    /\ th_req' = [th_req EXCEPT ![t] = pos]
    /\ th_res' = [th_res EXCEPT ![t] = NoResult]
    /\ th_left' = [th_left EXCEPT ![t] = @ - 1]
    /\ UNCHANGED <<es_lock, procs, searching>>

(* with self._lock: *)
lock_acquire(t) ==
    /\ th_pc[t] = "waiting" /\ LockFree
    /\ UNCHANGED outsideThreads
    /\ es_lock' = t
    /\ th_pc' = [th_pc EXCEPT ![t] = "locked"]
    /\ UNCHANGED <<th_req, th_res, th_left, procs, searching>>

(* self._engine.analyse(...) sends the search to the process *)
search_start(t) ==
    /\ th_pc[t] = "locked"
    /\ UNCHANGED outsideThreads
    /\ searching' = searching \cup {[proc |-> SessionProc, by |-> t, req |-> th_req[t]]}
    /\ th_pc' = [th_pc EXCEPT ![t] = "searching"]
    /\ UNCHANGED <<th_req, th_res, th_left, es_lock, procs>>

(* the process answers or fails; with searches of several threads on one   *)
(* process the answer read by a thread may be that of any of them          *)
search_return(t) ==
    /\ th_pc[t] = "searching"
    /\ UNCHANGED outsideThreads
    /\ \E s \in {x \in searching : x.proc = SessionProc}, ok \in BOOLEAN :
         th_res' = [th_res EXCEPT ![t] = [of |-> s.req, by |-> s.by, ok |-> ok]]
    /\ searching' = searching \ {[proc |-> SessionProc, by |-> t, req |-> th_req[t]]}
    /\ th_pc' = [th_pc EXCEPT ![t] = "unlock"]
    /\ UNCHANGED <<th_req, th_left, es_lock, procs>>

(* leaving the with block, by return or by exception *)
lock_release(t) ==
    /\ th_pc[t] = "unlock"
    /\ UNCHANGED outsideThreads
    /\ es_lock' = NoThread
    /\ th_pc' = [th_pc EXCEPT ![t] = "done"]
    /\ UNCHANGED <<th_req, th_res, th_left, procs, searching>>

(* the caller goes on with the result *)
caller_continues(t) ==
    /\ th_pc[t] = "done"
    /\ UNCHANGED outsideThreads
    /\ th_pc' = [th_pc EXCEPT ![t] = "idle"]
    /\ th_res' = [th_res EXCEPT ![t] = NoResult]
    /\ UNCHANGED <<th_req, th_left, es_lock, procs, searching>>

(* engine_core.analyze_fen: a process of its own for one search *)
analyze_fen_start(t, pos) ==
    /\ th_pc[t] = "idle" /\ th_left[t] > 0
    /\ UNCHANGED outsideThreads
    /\ procs' = procs \cup {FenProc(t)}
    /\ searching' = searching \cup {[proc |-> FenProc(t), by |-> t, req |-> pos]}
    /\ th_pc' = [th_pc EXCEPT ![t] = "fen"]
    /\ th_req' = [th_req EXCEPT ![t] = pos]
    /\ th_res' = [th_res EXCEPT ![t] = NoResult]
    /\ th_left' = [th_left EXCEPT ![t] = @ - 1]
    /\ UNCHANGED es_lock

analyze_fen_return(t) ==
    /\ th_pc[t] = "fen"
    /\ UNCHANGED outsideThreads
    /\ \E ok \in BOOLEAN :
         th_res' = [th_res EXCEPT ![t] = [of |-> th_req[t], by |-> t, ok |-> ok]]
    /\ searching' = searching \ {[proc |-> FenProc(t), by |-> t, req |-> th_req[t]]}
    /\ procs' = procs \ {FenProc(t)}
    /\ th_pc' = [th_pc EXCEPT ![t] = "done"]
    /\ UNCHANGED <<th_req, th_left, es_lock>>

(* analyze_game as its thread runs it: popen_uci, then a search before and *)
(* after every move, then engine.quit()                                    *)
batch_popen ==
    /\ th_pc[AnalysisThread] = "idle" /\ th_left[AnalysisThread] > 0
    /\ BatchProc \notin procs
    /\ UNCHANGED outsideThreads
    /\ procs' = procs \cup {BatchProc}
    /\ th_pc' = [th_pc EXCEPT ![AnalysisThread] = "loop"]
    /\ UNCHANGED <<th_req, th_res, th_left, es_lock, searching>>

batch_search_start(pos) ==
    /\ th_pc[AnalysisThread] = "loop" /\ th_left[AnalysisThread] > 0
    /\ UNCHANGED outsideThreads
    /\ searching' = searching \cup {[proc |-> BatchProc, by |-> AnalysisThread, req |-> pos]}
    /\ th_pc' = [th_pc EXCEPT ![AnalysisThread] = "searching"]
    /\ th_req' = [th_req EXCEPT ![AnalysisThread] = pos]
    /\ th_left' = [th_left EXCEPT ![AnalysisThread] = @ - 1]
    /\ UNCHANGED <<th_res, es_lock, procs>>

(* a failed search raises out of analyze_game, past engine.quit() *)
batch_search_return ==
    /\ th_pc[AnalysisThread] = "searching"
    /\ UNCHANGED outsideThreads
    /\ searching' = searching \ {[proc |-> BatchProc, by |-> AnalysisThread,
                                  req |-> th_req[AnalysisThread]]}
    /\ \E ok \in BOOLEAN :
         /\ th_res' = [th_res EXCEPT ![AnalysisThread] =
                          [of |-> th_req[AnalysisThread], by |-> AnalysisThread, ok |-> ok]]
         /\ th_pc' = [th_pc EXCEPT ![AnalysisThread] = IF ok THEN "loop" ELSE "raised"]
    /\ UNCHANGED <<th_req, th_left, es_lock, procs>>

batch_quit ==
    /\ th_pc[AnalysisThread] = "loop"
    /\ UNCHANGED outsideThreads
    /\ procs' = procs \ {BatchProc}
    /\ th_pc' = [th_pc EXCEPT ![AnalysisThread] = "idle"]
    /\ th_res' = [th_res EXCEPT ![AnalysisThread] = NoResult]
    /\ UNCHANGED <<th_req, th_left, es_lock, searching>>

-----------------------------------------------------------------------------
(* The Stop and Start buttons of the window, the assistant's worker being  *)
(* alive: stop_loop sets the event, start_loop clears it for a new worker. *)

stop_loop ==
    /\ ~stop_event
    /\ stop_event' = TRUE
    /\ UNCHANGED outsideApp

start_loop ==
    /\ stop_event
    /\ stop_event' = FALSE
    /\ UNCHANGED outsideApp

-----------------------------------------------------------------------------
(* The severity marks of one CPL value, by both implementations.           *)

MaxCpl == 310

CplInputs == (0 - MaxCpl)..MaxCpl

classify_cpl ==
    /\ mk_inline = "pending"
    /\ UNCHANGED outsideMarks
    /\ mk_inline' = InlineMark(mk_cpl)
    /\ mk_batch' = annotate_by_cpl(mk_cpl)
    /\ UNCHANGED mk_cpl

-----------------------------------------------------------------------------
(* The score normalizers applied to one score object, for each colour.     *)

MaxMate == 3         \* longest mate distance of the score objects

Accessor == {"absent", "raises"}

(* what can be handed to a normalizer: None, a PovScore holding Cp(v),     *)
(* Mate(v) or MateGiven, or an object of another type                      *)
ScoreObjects ==
    {NoScore}
    \cup {[kind |-> "cp", v |-> c, turn |-> t] : c \in CpVals, t \in BOOLEAN}
    \cup {[kind |-> "mate", v |-> m, turn |-> t] :
            m \in (0 - MaxMate)..MaxMate, t \in BOOLEAN}
    \cup {[kind |-> "mategiven", v |-> 0, turn |-> t] : t \in BOOLEAN}
    \cup {[kind |-> "object", pov |-> p, score |-> s, cp |-> c, mate |-> m] :
            p \in Accessor, s \in Accessor, c \in Accessor \cup {"value"},
            m \in Accessor}

Returned(v) == [raised |-> FALSE, value |-> v]

Raised == [raised |-> TRUE]

(* a call of extract_cp: getattr(s, "cp", None) is read outside any try    *)
extract_cp_call(s, pov_color) ==
    IF s.kind = "object" /\ s.cp = "raises" THEN Raised
    ELSE Returned(extract_cp(s, pov_color))

(* a call of CoachSession._score_to_cp on a board with `color` to move *)
score_to_cp_call(s, color) ==
    Returned(ScoreToCp([StartBoard EXCEPT !.turn = color], s))

NotCalled == [called |-> FALSE]

normalize_score(color) ==
    /\ sc_out[color] = NotCalled
    /\ UNCHANGED outsideScores
    /\ sc_out' = [sc_out EXCEPT ![color] =
                    [called |-> TRUE,
                     extract |-> extract_cp_call(sc_obj, color),
                     coach |-> score_to_cp_call(sc_obj, color)]]
    /\ UNCHANGED sc_obj

-----------------------------------------------------------------------------
(* The alternatives offered for one position, selected both ways: by the   *)
(* ply loop of analyze_game (indices of engine lines) and by the coaching  *)
(* loop (notations, from first_line_and_equal_alts).  The position is past *)
(* the opening, White to move; the engine returns up to AltLines lines.    *)

(* one line more than the default, so that a third candidate is cut off *)
AltLines == DEFAULT_MULTIPV + 1

AltPlayed == 1       \* the move played in the position

AltBoard == RootBoard(WHITE, OPENING_SKIP_FULLMOVES + 1)

AltInputs ==
    {[pre_board |-> AltBoard, move |-> AltPlayed, items |-> l] :
        l \in UNION {LinesOfLen(WHITE, AltPlayed, n) : n \in 0..AltLines}}

select_alternatives ==
    /\ alt_out = NotCalled
    /\ alt_out' =
         [played_idx |-> PlayedLine(alt_in.items, 1, alt_in.move),
          alt_idxs |-> ChosenAltIdxs(alt_in.pre_board, alt_in.items, alt_in.move),
          engine_alts |-> EngineAlts(FirstLineOptions(alt_in.pre_board, alt_in.items),
                                     San(alt_in.pre_board, alt_in.move))]
    /\ UNCHANGED alt_in
    /\ UNCHANGED outsideAlts

InitAlts ==
    /\ alt_in = [pre_board |-> AltBoard, move |-> AltPlayed, items |-> <<>>]
    /\ alt_out = NotCalled


-----------------------------------------------------------------------------
(* EngineSession.quit, which CoachSession.close calls.  The process of the *)
(* session is in procs while it lives.  A live process either answers the  *)
(* quit command and exits, or does not answer; engine.quit() then raises   *)
(* after its timeout, as it does when the process is gone already.         *)

MaxQuits == 3        \* calls of quit that are counted

SessionAlive == SessionProc \in procs

(* the outcomes of self._engine.quit() *)
EngineQuitOutcomes ==
    IF SessionAlive /\ es_responsive
    THEN {[raises |-> FALSE, exits |-> TRUE]}
    ELSE {[raises |-> TRUE, exits |-> FALSE]}

(* what leaves the block `try: ... except Exception: pass` *)
LeavesTry(raises) == FALSE

(* quit by thread t: the lock, then engine.quit() inside try/except *)
quit(t) ==
    /\ th_pc[t] = "idle" /\ LockFree
    /\ es_quits < MaxQuits
    /\ UNCHANGED <<sessVars, batchVars, markVars, scoreVars, stop_event, altVars>>
    /\ \E out \in EngineQuitOutcomes :
         /\ procs' = IF out.exits THEN procs \ {SessionProc} ELSE procs
         /\ es_quit_raised' = (es_quit_raised \/ LeavesTry(out.raises))
    /\ es_quits' = es_quits + 1
    /\ UNCHANGED <<th_pc, th_req, th_res, th_left, es_lock, searching, es_responsive>>

(* the engine process dies *)
engine_dies ==
    /\ SessionAlive
    /\ procs' = procs \ {SessionProc}
    /\ UNCHANGED <<sessVars, batchVars, markVars, scoreVars, stop_event, altVars>>
    /\ UNCHANGED <<th_pc, th_req, th_res, th_left, es_lock, searching, quitVars>>

(* the engine process stops answering *)
engine_stalls ==
    /\ SessionAlive /\ es_responsive
    /\ es_responsive' = FALSE
    /\ UNCHANGED <<sessVars, batchVars, markVars, scoreVars, stop_event, altVars>>
    /\ UNCHANGED <<engVars, es_quits, es_quit_raised>>

InitQuit ==
    /\ es_responsive = TRUE
    /\ es_quits = 0
    /\ es_quit_raised = FALSE

-----------------------------------------------------------------------------
InitSession ==
    /\ game = NoGame
    /\ nodes_mainline = <<>>
    /\ board = StartBoard
    /\ ply_idx = 0
    /\ last_branch = NoBranch
    /\ ret = Idle

InitBatch ==
    /\ ag_pc = "idle"
    /\ ag_game = NoGame
    /\ ag_board = StartBoard
    /\ ag_ply = 0
    /\ ag_annotated = <<>>
    /\ ag_rec = NoRec
    /\ ag_engine = "none"

InitThreads ==
    /\ th_pc = [t \in AllThreads |-> "idle"]
    /\ th_req = [t \in AllThreads |-> "p"]
    /\ th_res = [t \in AllThreads |-> NoResult]
    /\ th_left = [t \in AllThreads |-> MaxCalls]
    /\ es_lock = NoThread
    /\ procs = {SessionProc}
    /\ searching = {}

InitMarks ==
    /\ mk_cpl = 0
    /\ mk_inline = "pending"
    /\ mk_batch = "pending"

InitScores ==
    /\ sc_obj = NoScore
    /\ sc_out = [c \in BOOLEAN |-> NotCalled]

InitApp == stop_event = FALSE

Init == InitSession /\ InitBatch /\ InitThreads /\ InitMarks /\ InitScores /\ InitApp
        /\ InitAlts /\ InitQuit

(* The coaching session driven through every operation, over all games;    *)
(* the engine answers with at most one line.                               *)
Next ==
    \/ \E g \in Games \cup {NoGame} : load_pgn(g)
    \/ \E n \in PlyArgs : goto_ply(n)
    \/ \E q \in SanQueries : goto_by_san(q)
    \/ \E lo \in FullmoveArgs, hi \in FullmoveArgs : autoplay_to_first_branch(lo, hi)
    \/ detect_mistake_on_next_main_move(1)
    \/ first_line_and_equal_alts(1)
    \/ quick_eval(1)
    \/ \E text \in Texts : what_if_san(text, 10, 1)
    \/ NextCommand

Spec == Init /\ [][Next]_vars

(* The classifier on games without variations, the engine answering with   *)
(* up to MaxLines lines.                                                   *)
ClassifyGames == {g \in Games : \A i \in 1..Len(g.main) : g.main[i].nvars = 1}

NextClassify ==
    \/ \E g \in ClassifyGames \cup {NoGame} : load_pgn(g)
    \/ \E n \in 0..MaxLen : goto_ply(n)
    \/ detect_mistake_on_next_main_move(MaxLines)
    \/ first_line_and_equal_alts(MaxLines)
    \/ NextCommand

SpecClassify == Init /\ [][NextClassify]_vars

(* The batch pass over games that start in the last opening full move. *)
NextBatch ==
    \/ \E g \in AnalyzerGames \cup {NoGame} : analyze_game_begin(g)
    \/ analyze_ply(Min(DEFAULT_MULTIPV, MaxLines))
    \/ analyze_next_node
    \/ analyze_game_end
    \/ analysis_thread_exit

SpecBatch == Init /\ [][NextBatch]_vars

(* The batch pass while the user presses Stop and Start. *)
NextCancel ==
    \/ NextBatch
    \/ stop_loop
    \/ start_loop

SpecCancel == Init /\ [][NextCancel]_vars

(* Threads calling EngineSession.analyse on one session. *)
NextEngineSession ==
    \/ \E t \in Callers, pos \in Positions : analyse_enter(t, pos)
    \/ \E t \in Callers : lock_acquire(t)
    \/ \E t \in Callers : search_start(t)
    \/ \E t \in Callers : search_return(t)
    \/ \E t \in Callers : lock_release(t)
    \/ \E t \in Callers : caller_continues(t)

SpecEngineSession == Init /\ [][NextEngineSession]_vars

(* a thread inside analyse keeps running: the lock is handed to a waiting  *)
(* thread once it is free, a search answers or fails, the block is left    *)
FairEngineSession ==
    /\ SpecEngineSession
    /\ \A t \in Callers :
         /\ WF_vars(lock_acquire(t))
         /\ WF_vars(search_start(t))
         /\ WF_vars(search_return(t))
         /\ WF_vars(lock_release(t))

(* The whole program: the assistant's worker thread (run_assistant), which *)
(* calls the session and analyze_fen, and the batch analysis thread.       *)
AssistantThread == 1

NextProgram ==
    \/ \E pos \in Positions : analyse_enter(AssistantThread, pos)
    \/ lock_acquire(AssistantThread)
    \/ search_start(AssistantThread)
    \/ search_return(AssistantThread)
    \/ lock_release(AssistantThread)
    \/ caller_continues(AssistantThread)
    \/ \E pos \in Positions : analyze_fen_start(AssistantThread, pos)
    \/ analyze_fen_return(AssistantThread)
    \/ batch_popen
    \/ \E pos \in Positions : batch_search_start(pos)
    \/ batch_search_return
    \/ batch_quit

SpecProgram == Init /\ [][NextProgram]_vars

(* Both mark functions applied to every CPL in range. *)
InitCpl == InitSession /\ InitBatch /\ InitThreads /\ InitScores /\ InitApp /\ InitAlts
           /\ InitQuit
           /\ mk_cpl \in CplInputs /\ mk_inline = "pending" /\ mk_batch = "pending"

NextMarks == classify_cpl

SpecMarks == InitCpl /\ [][NextMarks]_vars

(* The deep probe at target depths below, at and above the depth at which  *)
(* the deepening starts.                                                   *)
ProbeDepths == {9, 10, 11, 12}

(* the present position or one token *)
ProbeTexts == {text \in Texts : Len(text) <= 1}

NextProbe ==
    \/ \E text \in ProbeTexts, depth \in ProbeDepths : what_if_san(text, depth, 1)
    \/ NextCommand

SpecProbe == Init /\ [][NextProbe]_vars

(* Both score normalizers applied to every score object, for White and    *)
(* for Black.                                                              *)
InitScoreObjects == InitSession /\ InitBatch /\ InitThreads /\ InitMarks /\ InitApp /\ InitAlts
                    /\ InitQuit
                    /\ sc_obj \in ScoreObjects
                    /\ sc_out = [c \in BOOLEAN |-> NotCalled]

NextScores == \E color \in BOOLEAN : normalize_score(color)

SpecScores == InitScoreObjects /\ [][NextScores]_vars

-----------------------------------------------------------------------------
(* Properties of the coaching session.                                     *)

(* C1: autoplay_to_first_branch on a loaded game moves the cursor to the   *)
(* smallest branch ply whose full-move number before the move lies in      *)
(* [min_fullmove, max_fullmove]; if there is none, to the smallest branch  *)
(* ply of the game; if the game has no branch point, to ply 0.  With       *)
(* branch points at full moves 2 and 9 only and the range [4, 6] the       *)
(* branch reported is the one at full move 2.                              *)
C1_FallbackChain ==
    (ret.op = "autoplay" /\ ret.error = "") =>
      LET g == game
          fullmoveBefore(i) ==
              g.root.fullmove_number
              + ((i + (IF g.root.turn = BLACK THEN 1 ELSE 0)) \div 2)
          branches == {i \in 0..(Len(g.main) - 1) : g.main[i + 1].nvars > 1}
          inRange == {i \in branches : /\ ret.min_fullmove <= fullmoveBefore(i)
                                       /\ fullmoveBefore(i) <= ret.max_fullmove}
          least(S) == CHOOSE x \in S : \A y \in S : x <= y
          expected == IF inRange # {} THEN least(inRange)
                      ELSE IF branches # {} THEN least(branches) ELSE 0
      IN /\ ply_idx = expected
         /\ ~ret.raised => /\ ret.info.branch_ply = expected
                           /\ ret.info.branch_fullmove = fullmoveBefore(expected)
         /\ (g = ScenarioGame /\ ret.min_fullmove = 4 /\ ret.max_fullmove = 6)
              => (~ret.raised /\ ret.info.branch_ply = 2 /\ ret.info.branch_fullmove = 2)

C1_Witness ==
    /\ game = ScenarioGame
    /\ ret.op = "autoplay" /\ ret.error = "" /\ ~ret.raised
    /\ ret.min_fullmove = 4 /\ ret.max_fullmove = 6
    /\ ret.info.branch_fullmove = 2
    /\ ply_idx = 2

(* C2: whatever operations have run, the cursor is within the mainline,    *)
(* 0 <= ply_idx <= len(nodes_mainline), and the board is the root position *)
(* of the game advanced by exactly the first ply_idx mainline moves;       *)
(* goto_ply(n) leaves the cursor at n clamped into that range.             *)
C2_CursorInvariant ==
    /\ game = NoGame => (ply_idx = 0 /\ board = StartBoard /\ nodes_mainline = <<>>)
    /\ game # NoGame =>
         LET blackFirst == IF game.root.turn = BLACK THEN 1 ELSE 0 IN
         /\ nodes_mainline = game.main
         /\ 0 <= ply_idx /\ ply_idx <= Len(nodes_mainline)
         /\ Len(board.stack) = ply_idx
         /\ \A i \in 1..ply_idx : board.stack[i] = game.main[i].move
         /\ board.turn = (IF ply_idx % 2 = 0 THEN game.root.turn ELSE ~game.root.turn)
         /\ board.fullmove_number
              = game.root.fullmove_number + ((ply_idx + blackFirst) \div 2)
    /\ (ret.op = "goto_ply" /\ ret.error = "") =>
         ply_idx = (IF ret.n < 0 THEN 0
                    ELSE IF ret.n > Len(nodes_mainline) THEN Len(nodes_mainline)
                    ELSE ret.n)

C2_Witness ==
    /\ game # NoGame /\ Len(nodes_mainline) = MaxLen
    /\ last_branch # NoBranch
    /\ ret.op = "goto_ply" /\ ret.error = ""
    /\ ret.n > Len(nodes_mainline)
    /\ ply_idx = MaxLen

(* C7: when the full-move number of the position at the cursor is at or    *)
(* below the opening-grace cutoff, detect_mistake_on_next_main_move        *)
(* returns CPL 0 and no mark and makes no engine call.                     *)
C7_OpeningGrace ==
    (/\ ret.op = "detect"
     /\ game # NoGame /\ ply_idx < Len(nodes_mainline)
     /\ board.fullmove_number <= COACH_OPENING_FULLMOVES)
      => (~ret.raised /\ ret.cpl = 0 /\ ret.mark = "" /\ ret.calls = <<>>)

C7_Witness ==
    /\ ret.op = "detect" /\ ~ret.raised
    /\ game # NoGame /\ ply_idx < Len(nodes_mainline)
    /\ board.fullmove_number = COACH_OPENING_FULLMOVES
    /\ ret.cpl = 0 /\ ret.mark = "" /\ ret.calls = <<>>

(* C9: past the opening grace, when the played move is the first move of   *)
(* the top line, or the line that starts with the played move has a score  *)
(* within 25 centipawns (inclusive) of the best score, the verdict is      *)
(* CPL 0 and no mark after the one pre-move engine call; the verdict is a  *)
(* function of the position and the engine's lines alone, so classifying   *)
(* again with the same lines gives the same verdict.                       *)
C9_EqualToBest ==
    (ret.op = "detect" /\ "items_pre" \in DOMAIN ret) =>
      LET items == ret.items_pre
          played == nodes_mainline[ply_idx + 1].move
          stm == board.turn
          cpOf(sc) == IF sc.kind = "none" THEN 0
                      ELSE LET v == IF sc.turn = stm THEN sc.v ELSE 0 - sc.v IN
                           IF sc.kind = "cp" THEN v
                           ELSE IF v > 0 THEN MATE_CP ELSE 0 - MATE_CP
          startsWithPlayed == {i \in 1..Len(items) :
                                 items[i].pv # <<>> /\ items[i].pv[1] = played}
          isTop == 1 \in startsWithPlayed
          close == \E i \in startsWithPlayed :
                     /\ items[i].score.kind # "none"
                     /\ cpOf(items[1].score) - cpOf(items[i].score) <= ALT_TOL_CP
                     /\ cpOf(items[i].score) - cpOf(items[1].score) <= ALT_TOL_CP
      IN (isTop \/ close) =>
           /\ ~ret.raised
           /\ ret.cpl = 0 /\ ret.mark = ""
           /\ Len(ret.calls) = 1
           /\ ret.played_san = San(board, played)
           /\ ret.best_san = (IF items[1].pv # <<>>
                              THEN San(board, items[1].pv[1]) ELSE EmptySan)

C9_Witness ==
    /\ ret.op = "detect" /\ ~ret.raised /\ ret.phase = "equal"
    /\ Len(ret.items_pre) = 2
    /\ ret.items_pre[2].pv = <<nodes_mainline[ply_idx + 1].move>>
    /\ ret.items_pre[1].score = [kind |-> "cp", v |-> ALT_TOL_CP, turn |-> board.turn]
    /\ ret.items_pre[2].score = [kind |-> "cp", v |-> 0, turn |-> board.turn]
    /\ ret.cpl = 0 /\ ret.mark = ""

(* C5: the CPL of a classified move is the best pre-move score minus the   *)
(* post-move score, both seen from the player who made the move: a move    *)
(* that leaves the mover's evaluation unchanged has CPL 0 and one that     *)
(* loses X centipawns for the mover has CPL X.                             *)
C5_MoverPerspective ==
    (ret.op = "detect" /\ ~ret.raised /\ ret.phase = "cpl") =>
      LET mover == board.turn
          forMover(sc) ==
              IF sc.kind = "none" THEN 0
              ELSE LET v == IF sc.turn = mover THEN sc.v ELSE 0 - sc.v IN
                   IF sc.kind = "cp" THEN v
                   ELSE IF v > 0 THEN MATE_CP ELSE 0 - MATE_CP
          bestBefore == IF ret.items_pre # <<>>
                        THEN forMover(ret.items_pre[1].score) ELSE 0
      IN ret.cpl = bestBefore - forMover(ret.post_score)

-----------------------------------------------------------------------------
(* Properties of the batch pass.                                           *)

(* C6: a move after which the evaluation for the mover is at least the     *)
(* best pre-move evaluation (CPL <= 0) gets no severity mark, however      *)
(* large the gain.                                                         *)
C6_NoMarkWithoutLoss ==
    (ag_rec # NoRec /\ ag_rec.post_cp_for_mover >= ag_rec.best_cp_before_stm)
      => (ag_rec.mark = "" /\ ag_rec.nags = {})

(* C8: for a ply whose pre-move full-move number is at or below            *)
(* OPENING_SKIP_FULLMOVES the record of analyze_game has cpl 0 and an      *)
(* empty mark and the exported node has no severity NAG and no inserted    *)
(* variation.                                                              *)
C8_OpeningSkipped ==
    (ag_rec # NoRec /\ ag_rec.fen_before.fullmove_number <= OPENING_SKIP_FULLMOVES)
      => /\ ag_rec.cpl = 0
         /\ ag_rec.mark = ""
         /\ ag_rec.nags = {}
         /\ ag_rec.variations = <<>>

-----------------------------------------------------------------------------
(* Properties of the threads and engine processes.                         *)

C4_OneAnalysisInFlight == Cardinality(searching) <= 1

-----------------------------------------------------------------------------
(* Properties of the severity marks.                                       *)

(* C10: the mark depends on |CPL| only: none below 50, "?!" from 50,       *)
(* "?" from 150, "??" from 300; annotate_by_cpl and the inline thresholds  *)
(* of detect_mistake_on_next_main_move give the same mark for every CPL.   *)
C10_MarkByAbsCpl ==
    mk_inline # "pending" =>
      LET a == IF mk_cpl < 0 THEN 0 - mk_cpl ELSE mk_cpl
          expected == IF a < 50 THEN ""
                      ELSE IF a < 150 THEN "?!"
                      ELSE IF a < 300 THEN "?"
                      ELSE "??"
      IN mk_inline = expected /\ mk_batch = expected

C10_Witness ==
    /\ mk_cpl = 0 - THRESH_BLUNDER
    /\ mk_inline = "??"
    /\ mk_batch = "??"

-----------------------------------------------------------------------------
(* Properties of decisive positions.                                       *)

(* C11: for a classified ply whose best pre-move score or best post-move   *)
(* score, seen from White, exceeds DECISIVE_HIDE_CP in absolute value, no  *)
(* severity mark is produced, whatever the CPL.                            *)
C11_DecisiveSuppressed ==
    (ret.op = "detect" /\ ~ret.raised /\ ret.phase = "cpl") =>
      LET forWhite(sc) ==
              IF sc.kind = "none" THEN 0
              ELSE LET v == IF sc.turn = WHITE THEN sc.v ELSE 0 - sc.v IN
                   IF sc.kind = "cp" THEN v
                   ELSE IF v > 0 THEN MATE_CP ELSE 0 - MATE_CP
          bestBefore == IF ret.items_pre # <<>>
                        THEN forWhite(ret.items_pre[1].score) ELSE 0
          decisive == \/ Abs(bestBefore) > DECISIVE_HIDE_CP
                      \/ Abs(forWhite(ret.post_score)) > DECISIVE_HIDE_CP
      IN decisive => ret.mark = ""

-----------------------------------------------------------------------------
(* Properties of the score normalizers.                                    *)

(* C12: extract_cp and CoachSession._score_to_cp return an integer and     *)
(* never raise, for None, a centipawn score, a mate of any distance for    *)
(* either side and an object whose accessors are missing or raise; for a   *)
(* mate the result has absolute value >= 10000.                            *)
C12_NormalizersTotal ==
    \A color \in BOOLEAN :
      sc_out[color] # NotCalled =>
        /\ ~sc_out[color].extract.raised
        /\ ~sc_out[color].coach.raised
        /\ sc_out[color].extract.value \in Int
        /\ sc_out[color].coach.value \in Int
        /\ sc_obj.kind \in {"mate", "mategiven"} =>
             /\ Abs(sc_out[color].extract.value) >= 10000
             /\ Abs(sc_out[color].coach.value) >= 10000

(* C13: for every engine score the value for White is the negation of the  *)
(* value for Black; a mate is positive exactly for the mating side and a   *)
(* centipawn score is the score seen from the requested colour.            *)
C13_PerspectiveCorrect ==
    (sc_obj.kind \in {"cp", "mate", "mategiven"}
       /\ \A color \in BOOLEAN : sc_out[color] # NotCalled) =>
      LET forColor(c) == IF sc_obj.turn = c THEN sc_obj.v ELSE 0 - sc_obj.v
          mating(c) == IF IsZeroMate(sc_obj) THEN ZeroMateWon(sc_obj, c)
                       ELSE forColor(c) > 0
      IN /\ sc_out[WHITE].extract.value = 0 - sc_out[BLACK].extract.value
         /\ sc_out[WHITE].coach.value = 0 - sc_out[BLACK].coach.value
         /\ \A c \in BOOLEAN :
              IF sc_obj.kind = "cp"
              THEN /\ sc_out[c].extract.value = forColor(c)
                   /\ sc_out[c].coach.value = forColor(c)
              ELSE /\ (sc_out[c].extract.value > 0) <=> mating(c)
                   /\ (sc_out[c].coach.value > 0) <=> mating(c)

-----------------------------------------------------------------------------
(* Properties of the hypothetical variation (what_if_san).                 *)

(* C14: a text of one or more legal moves in SAN or UCI notation, with     *)
(* move numbers and ellipses between them, is accepted and the position    *)
(* analysed is the session position with exactly those moves pushed, in    *)
(* order.                                                                  *)
C14_SequenceApplied ==
    ret.op = "what_if" =>
      LET kept == SelectSeq(ret.text, LAMBDA t : t.kind # "num")
          legal == /\ kept # <<>>
                   /\ \A i \in 1..Len(kept) :
                        kept[i].kind = "move" /\ kept[i].move = AltMove(i)
      IN legal =>
           /\ ret.error = ""
           /\ ~ret.raised =>
                ret.fen_after = PushAll(board, [i \in 1..Len(kept) |-> kept[i].move])

(* C15: a text with a token that is unparseable or not a legal move in its *)
(* place makes what_if_san return the invalid-variation error without an   *)
(* engine analysis.                                                        *)
C15_InvalidFailsWhole ==
    ret.op = "what_if" =>
      LET kept == SelectSeq(ret.text, LAMBDA t : t.kind # "num")
          invalid == \E i \in 1..Len(kept) :
                       kept[i].kind # "move" \/ kept[i].move # AltMove(i)
      IN invalid => (ret.error = "invalid" /\ ~ret.raised /\ ret.calls = <<>>)

(* C16: for a valid variation and target depth D the engine is asked at    *)
(* depths min(10, D), ..., D, once each and in increasing order, every     *)
(* analysis is followed by its progress line before the next one starts,   *)
(* and the lines returned are those of the analysis at depth D.            *)
C16_IterativeDeepening ==
    (ret.op = "what_if" /\ ret.error = "" /\ ~ret.raised) =>
      LET D == ret.depth
          first == IF D < 10 THEN D ELSE 10
          n == D - first + 1
      IN /\ ret.trace = [i \in 1..(2 * n) |->
                           IF i % 2 = 1
                           THEN [ev |-> "analyse", depth |-> first + (i - 1) \div 2]
                           ELSE [ev |-> "progress", depth |-> first + (i - 2) \div 2]]
         /\ Len(ret.calls) = n
         /\ \A i \in 1..n : /\ ret.calls[i].depth = first + i - 1
                            /\ ret.calls[i].board = ret.fen_after
         /\ Len(ret.answers) = n
         /\ ret.lines = FormatLines(ret.fen_after, ret.answers[n])

C16_Witness ==
    /\ ret.op = "what_if" /\ ret.error = "" /\ ~ret.raised
    /\ ret.depth = 12
    /\ Len(ret.calls) = 3
    /\ ret.answers[1] # ret.answers[3]
    /\ ret.answers[2] # ret.answers[3]
    /\ ret.answers[3] # <<>>
    /\ ret.fen_after.stack = <<AltMove(1)>>

-----------------------------------------------------------------------------
(* Properties of long operations.                                          *)

(* C17: once the cancellation signal is raised while analyze_game walks    *)
(* the plies, no further engine analysis is started: the walk neither      *)
(* analyses another ply nor fails in one.                                  *)
C17_CancellationObserved ==
    [][(stop_event /\ ag_pc = "loop" /\ ag_rec = NoRec)
         => (ag_rec' = NoRec /\ ag_pc' # "raised")]_vars

(* C18: an engine analysis that fails for a ply does not abort the batch   *)
(* pass: the pass is never left with the engine running and the annotated  *)
(* game unwritten.                                                         *)
C18_FailureSkipsPly ==
    ~(ag_pc = "raised" /\ ag_engine = "running")

-----------------------------------------------------------------------------
(* Properties of the lookup by notation.                                   *)

(* C19: when some mainline move has the notation q (suffixes removed from  *)
(* both), goto_by_san(q) puts the cursor before the first such move:       *)
(* ply_idx is its index and the board is the position in which it is       *)
(* about to be played.                                                     *)
C19_FirstMatchingMove ==
    (ret.op = "goto_by_san" /\ game # NoGame) =>
      LET matching == {j \in 1..Len(nodes_mainline) :
                          StripSuffix(San(StartBoard, nodes_mainline[j].move))
                            = StripSuffix(ret.q)}
      IN matching # {} =>
           /\ ret.error = ""
           /\ ply_idx + 1 \in matching
           /\ \A j \in matching : ply_idx + 1 <= j
           /\ board = PushAll(game.root, SubSeq(MainMoves(nodes_mainline), 1, ply_idx))

-----------------------------------------------------------------------------
(* Properties of the exported tree.                                        *)

(* C21: the children of a pre-move node of the exported tree are the       *)
(* played move followed by side variations none of which starts with the   *)
(* played move, whichever engine line the played move heads.               *)
C21_NoDuplicateOfPlayed ==
    ag_rec # NoRec =>
      LET move == ag_game.main[ag_rec.ply].move IN
      /\ ag_rec.children[1] = move
      /\ Len(ag_rec.children) = 1 + Len(ag_rec.variations)
      /\ \A k \in 2..Len(ag_rec.children) : ag_rec.children[k] # move
      /\ \A k \in 1..Len(ag_rec.variations) : ag_rec.variations[k].moves[1] # move

C21_Witness ==
    /\ ag_rec # NoRec
    /\ Len(ag_rec.items) = 2
    /\ ag_rec.items[2].pv = <<ag_game.main[ag_rec.ply].move>>
    /\ Len(ag_rec.variations) = 1
    /\ ag_rec.children = <<ag_game.main[ag_rec.ply].move, AltMove(1)>>

(* C22: the exported tree followed along child 0 from the root is the      *)
(* original mainline: after every analysed ply it has the moves played so  *)
(* far, in order, and at the end of the pass all of them, in particular    *)
(* when no variation was inserted.                                         *)
C22_RoundTrip ==
    ag_pc \in {"loop", "done"} =>
      /\ ag_annotated = SubSeq(MainMoves(ag_game.main), 1, ag_ply)
      /\ ag_pc = "done" => ag_annotated = MainMoves(ag_game.main)

(* the last ply of a two-ply game analysed: the first ply is inside the    *)
(* opening, the second got no variation                                    *)
C22_Witness ==
    /\ ag_pc = "loop" /\ ag_rec # NoRec
    /\ Len(ag_game.main) = 2 /\ ag_ply = 2
    /\ ag_rec.variations = <<>>
    /\ ag_rec.items # <<>>
    /\ ag_annotated = <<1, 2>>


(* The alternatives selected for every set of engine lines. *)
InitAltInputs ==
    /\ InitSession /\ InitBatch /\ InitThreads /\ InitMarks /\ InitScores /\ InitApp
    /\ InitQuit
    /\ alt_in \in AltInputs
    /\ alt_out = NotCalled

NextAlts == select_alternatives

SpecAlts == InitAltInputs /\ [][NextAlts]_vars

(* C23: the equal alternatives offered for a position are at most two,    *)
(* each comes from an engine line other than the played move's line and    *)
(* is within ALT_TOL_CP of the first line, and none is the played move:    *)
(* for the indices the ply loop chooses when the played move heads a line, *)
(* and for the list the coaching loop keeps                                *)
C23_EqualAlternatives ==
    alt_out # NotCalled =>
      LET b == alt_in.pre_board
          items == alt_in.items
          move == alt_in.move
          idxs == alt_out.alt_idxs
          alts == alt_out.engine_alts
          IsPlayed(i) == items[i].pv # <<>> /\ items[i].pv[1] = move
      IN
      /\ alt_out.played_idx # 0 =>
           /\ Len(idxs) <= 2
           /\ \A k \in 1..Len(idxs) :
                /\ idxs[k] \in 1..Len(items)
                /\ idxs[k] # alt_out.played_idx
                /\ ~IsPlayed(idxs[k])
                /\ Abs(extract_cp(items[1].score, WHITE)
                       - extract_cp(items[idxs[k]].score, WHITE)) <= ALT_TOL_CP
           /\ \A j, k \in 1..Len(idxs) : j # k => idxs[j] # idxs[k]
      /\ Len(alts) <= 2
      /\ \A k \in 1..Len(alts) :
           /\ alts[k] # San(b, move)
           /\ \E i \in 2..Len(items) :
                /\ items[i].pv # <<>>
                /\ ~IsPlayed(i)
                /\ alts[k] = San(b, items[i].pv[1])
                /\ Abs(ScoreToCp(b, items[1].score)
                       - ScoreToCp(b, items[i].score)) <= ALT_TOL_CP

(* four lines within the tolerance, the played move on the second: the     *)
(* ply loop keeps lines 1 and 3, the coaching loop keeps the third move    *)
C23_Witness ==
    /\ alt_out # NotCalled
    /\ Len(alt_in.items) = 4
    /\ alt_out.played_idx = 2
    /\ alt_out.alt_idxs = <<1, 3>>
    /\ alt_in.items[4].pv = <<AltMove(4)>>
    /\ \A i \in 1..4 : alt_in.items[i].score = [kind |-> "cp", v |-> 0, turn |-> WHITE]
    /\ alt_out.engine_alts = <<San(alt_in.pre_board, AltMove(3))>>

(* The coaching session and the batch pass side by side, on games of at    *)
(* most one ply and one-line engine replies.  A session call and a ply of  *)
(* the pass are one step each and touch no common variable, so the record  *)
(* of a step is read before the other side takes its next step.            *)
FrameGames == {g \in Games : Len(g.main) <= 1}

FrameTexts == {text \in Texts : Len(text) <= 1}

NextFrame ==
    \/ ag_rec = NoRec /\ \E g \in FrameGames \cup {NoGame} : load_pgn(g)
    \/ ag_rec = NoRec /\ \E n \in {0, 1} : goto_ply(n)
    \/ ag_rec = NoRec /\ \E q \in SanQueries : goto_by_san(q)
    \/ ag_rec = NoRec /\ \E lo \in {1, FAR_FULLMOVE} : autoplay_to_first_branch(lo, FAR_FULLMOVE)
    \/ ag_rec = NoRec /\ detect_mistake_on_next_main_move(1)
    \/ ag_rec = NoRec /\ first_line_and_equal_alts(1)
    \/ ag_rec = NoRec /\ quick_eval(1)
    \/ ag_rec = NoRec /\ \E text \in FrameTexts : what_if_san(text, 10, 1)
    \/ ag_rec = NoRec /\ NextCommand
    \/ ret = Idle /\ \E g \in {h \in AnalyzerGames : Len(h.main) <= 1} \cup {NoGame} :
                        analyze_game_begin(g)
    \/ ret = Idle /\ analyze_ply(1)
    \/ ret = Idle /\ analyze_next_node
    \/ ret = Idle /\ analyze_game_end
    \/ ret = Idle /\ analysis_thread_exit

SpecFrame == Init /\ [][NextFrame]_vars

(* the operations that analyse, and the operations that move the cursor *)
AnalysisOps == {"detect", "first_line", "quick_eval", "what_if"}
CursorOps == {"load_pgn", "goto_ply", "goto_by_san", "autoplay"}

(* C24: analysis and export write no shared session state: the four        *)
(* analysing session calls and every step of analyze_game leave the live   *)
(* game, its mainline nodes, the cursor (ply_idx, board) and the parsed     *)
(* input game as they were; the cursor changes only in load_pgn, goto_ply,  *)
(* goto_by_san and autoplay_to_first_branch; the exporter starts from a     *)
(* new empty tree and only adds to it                                       *)
C24_AnalysisWritesNoState ==
    [][/\ (ret = Idle /\ ret' # Idle /\ ret'.op \in AnalysisOps)
            => UNCHANGED <<game, nodes_mainline, board, ply_idx>>
       /\ (<<ply_idx, board>>' # <<ply_idx, board>>)
            => (ret' # Idle /\ ret'.op \in CursorOps)
       /\ (batchVars' # batchVars)
            => /\ UNCHANGED <<game, nodes_mainline, board, ply_idx>>
               /\ ag_pc # "idle" => ag_game' = ag_game
       /\ (ag_pc = "idle" /\ ag_pc' = "loop") => ag_annotated' = <<>>
       /\ (ag_pc # "idle" /\ ag_annotated' # ag_annotated)
            => \E mv \in 1..MaxLen : ag_annotated' = Append(ag_annotated, mv)
      ]_vars

(* a pass has analysed the one ply of its game while the session stands    *)
(* after the first move of a loaded game and has just probed a variation   *)
C24_Witness ==
    /\ game # NoGame /\ ply_idx = 1
    /\ ret # Idle /\ ret.op = "what_if" /\ ~ret.raised
    /\ ag_pc = "loop" /\ ag_ply = 1 /\ ag_annotated = <<1>>

(* The assistant thread analysing and closing the session, the engine      *)
(* process dying or ceasing to answer at any time.                         *)
NextClose ==
    \/ \E pos \in Positions : analyse_enter(AssistantThread, pos)
    \/ lock_acquire(AssistantThread)
    \/ search_start(AssistantThread)
    \/ search_return(AssistantThread)
    \/ lock_release(AssistantThread)
    \/ caller_continues(AssistantThread)
    \/ quit(AssistantThread)
    \/ engine_dies
    \/ engine_stalls

SpecClose == Init /\ [][NextClose]_vars

(* C25: quit (close) never raises, however often and in whatever state it  *)
(* is called, and once the first call is over the engine process is        *)
(* terminated                                                              *)
C25_CloseTerminates ==
    /\ ~es_quit_raised
    /\ es_quits >= 1 => ~SessionAlive

(* quit never raises *)
CloseNeverRaises == ~es_quit_raised

(* The classifier as in SpecClassify, and on the two games of the opening  *)
(* scenario with the scenario's engine answers.                            *)
NextScenario ==
    \/ NextClassify
    \/ \E g \in OpeningGames : load_pgn(g)
    \/ detect_in_opening

SpecScenario == Init /\ [][NextScenario]_vars

(* C26: at the position after 1.e4 e5 2.Nf3 with the lines (+35, Nc6) and  *)
(* (+20, Bc5), the classifier gives no mark and CPL 0 when Nc6 was played, *)
(* and the mark "??" when f6 was played and loses 340 cp                   *)
C26_OpeningScenario ==
    (/\ game \in OpeningGames /\ ply_idx = 3
     /\ ret # Idle /\ ret.op = "detect")
    => /\ ~ret.raised
       /\ game = OpeningGame(Nc6) => (ret.mark = "" /\ ret.cpl = 0)
       /\ game = OpeningGame(F6) => ret.mark = "??"

(* the part of the scenario that holds: Nc6 gets no mark and CPL 0 *)
OpeningBestMoveUnmarked ==
    (/\ game = OpeningGame(Nc6) /\ ply_idx = 3
     /\ ret # Idle /\ ret.op = "detect")
    => (~ret.raised /\ ret.mark = "" /\ ret.cpl = 0)

(* C27: on a loaded game no navigation, classification or probe operation *)
(* of the session ends by raising: each one returns a result or an error   *)
(* value, also on a game without moves and when the engine fails           *)
C27_NoOperationRaises ==
    (/\ game # NoGame
     /\ ret # Idle
     /\ ret.op \in {"goto_ply", "goto_by_san", "autoplay", "detect", "what_if"})
    => ~ret.raised

(* The batch pass over one ply with long engine lines. *)
NextVariations ==
    \/ analyze_game_begin(VariationGame)
    \/ analyze_ply_long
    \/ analyze_next_node
    \/ analyze_game_end
    \/ analysis_thread_exit

SpecVariations == Init /\ [][NextVariations]_vars

(* C28: every inserted variation has between one and SUGGEST_LEN * 2       *)
(* nodes, the first moves of an engine line; exactly one node carries the  *)
(* evaluation comment: the first when the CPL of the played move is at     *)
(* least BAD_DROP_CP_FOR_VARIATION, the last otherwise                     *)
C28_CommentPlacement ==
    ag_rec # NoRec =>
      \A k \in 1..Len(ag_rec.variations) :
        LET v == ag_rec.variations[k]
            n == Len(v.nodes)
            commented == {j \in 1..n : v.nodes[j].comment # NoComment}
        IN
        /\ n >= 1 /\ n <= SUGGEST_LEN * 2
        /\ \E i \in 1..Len(ag_rec.items) :
             /\ n = Min(Len(ag_rec.items[i].pv), SUGGEST_LEN * 2)
             /\ [j \in 1..n |-> v.nodes[j].move] = SubSeq(ag_rec.items[i].pv, 1, n)
        /\ commented = {IF ag_rec.cpl >= BAD_DROP_CP_FOR_VARIATION THEN 1 ELSE n}

(* two variations cut to six plies from lines of seven, one of one ply; a  *)
(* small loss, so the comment is on the last node                          *)
C28_Witness ==
    /\ ag_rec # NoRec
    /\ ag_rec.cpl < BAD_DROP_CP_FOR_VARIATION
    /\ Len(ag_rec.variations) = 2
    /\ Len(ag_rec.items[1].pv) = SUGGEST_LEN * 2 + 1
    /\ Len(ag_rec.variations[1].nodes) = SUGGEST_LEN * 2
    /\ ag_rec.variations[1].nodes[SUGGEST_LEN * 2].comment # NoComment
    /\ ag_rec.variations[1].nodes[1].comment = NoComment
    /\ Len(ag_rec.variations[2].nodes) = 1

(* a loss of at least the threshold: the comment is on the first of the    *)
(* six nodes                                                               *)
CommentAtHeadReached ==
    /\ ag_rec # NoRec
    /\ ag_rec.cpl >= BAD_DROP_CP_FOR_VARIATION
    /\ Len(ag_rec.variations) >= 1
    /\ Len(ag_rec.variations[1].nodes) = SUGGEST_LEN * 2
    /\ ag_rec.variations[1].nodes[1].comment # NoComment

(* The coaching loop stepping through a game: load, go to a ply, continue. *)
NextContinue ==
    \/ \E g \in Games \cup {NoGame} : load_pgn(g)
    \/ \E n \in PlyArgs : goto_ply(n)
    \/ continue_step
    \/ NextCommand

SpecContinue == Init /\ [][NextContinue]_vars

(* C29: a "continue" step never moves the cursor backwards: after the call *)
(* of autoplay_to_first_branch ply_idx is at least what it was before      *)
C29_ContinueNeverBackwards ==
    [][(/\ ret = Idle /\ ret' # Idle
        /\ ret'.op = "autoplay") => ply_idx' >= ply_idx]_vars

(* C30: the engine process analyze_game opened is terminated on every way  *)
(* out of the function: when it has returned or raised, engine.quit() has  *)
(* been called and no process of it is left running                        *)
C30_EngineAlwaysQuit ==
    ag_pc \in {"done", "raised"} => ag_engine \in {"none", "quit"}

====
